---- MODULE Spec2Model ----
(***************************************************************************)
(* A model of tausch (src/src/tausch.rs): the tokenizer that turns a line  *)
(* of text into tokens, and eval/parse_if, which evaluate the tokens       *)
(* against a HashMap of variables.                                         *)
(*                                                                         *)
(* A char is a one-character string, a String is a sequence of chars.      *)
(***************************************************************************)
EXTENDS Integers, Sequences, FiniteSets, TLC

\* ------------------------------------------------------------------ bounds

\* Longest input, in chars, of the char-level scans (SpecScan).
MaxLen == 4
\* Longest line, in words, over the whole vocabulary (Spec).
MaxToks == 4
\* Most words that follow the `if n ; n` part of a longer line (Spec).
MaxTail == 2

\* ------------------------------------------------------- chars and Strings

\* The chars of the model's alphabet that char::is_alphanumeric accepts.
AlnumChars == {"i", "f", "a", "b"}
\* The chars of the model's alphabet that char::is_whitespace accepts.
WhitespaceChars == {" "}
\* Chars that are neither: the tokenizer knows nothing about them.
OtherChars == {"_", ";", ":", "!", "+", "-"}

is_alphanumeric(c) == c \in AlnumChars

\* Mutant: no char passes for whitespace.
is_whitespace_never(c) == FALSE

is_whitespace(c) == c \in WhitespaceChars

\* str::contains(char)
Contains(s, c) == \E i \in 1..Len(s) : s[i] = c

\* ----------------------------------------------------------- data model

\* enum VariableValue { Bool(bool), Str(String), Empty }
Bool(b) == [tag |-> "Bool", b |-> b, s |-> ""]
Str(s) == [tag |-> "Str", b |-> FALSE, s |-> s]
Empty == [tag |-> "Empty", b |-> FALSE, s |-> ""]

\* enum TokenType
TokenType == {"Variable", "IfStart", "IfNegate", "IfEnd", "IfElse"}

\* struct Token { typ, label }
Token(typ, label) == [typ |-> typ, label |-> label]

\* impl PartialEq for TokenType: self.type_id() == other.type_id().
\* Any::type_id of a value is the TypeId of its type, here TokenType for
\* every variant, on both sides.
TypeIdOf(typ) == "TokenType"
TokenTypeEq(a, b) == TypeIdOf(a) = TypeIdOf(b)

\* impl PartialEq for Token
TokenEq(a, b) == a.label = b.label /\ TypeIdOf(a.typ) = TypeIdOf(b.typ)

\* Tokenizer::new: the reserved tokens, in the order of the Vec.
reserved_tokens ==
    << Token("IfStart", <<"i", "f">>),
       Token("IfEnd", <<";">>),
       Token("IfElse", <<":">>),
       Token("IfNegate", <<"!">>) >>

\* enum TauschError { Tokenizer(String), Parser(String) } inside a Result.
\* msg is the format string of the message, arg what is interpolated in it.
NoArg == <<>>
Ok(v) == [tag |-> "Ok", val |-> v, kind |-> "", msg |-> "", arg |-> NoArg]
Err(kind, msg, arg) == [tag |-> "Err", val |-> Empty, kind |-> kind, msg |-> msg, arg |-> arg]
Pending == [tag |-> "Pending", val |-> Empty, kind |-> "", msg |-> "", arg |-> NoArg]

\* ------------------------------------------------------------- Tokenizer

\* Mutant: the underscore forgotten.
is_allowed_var_name_no_underscore(c) == is_alphanumeric(c)

is_allowed_var_name(c) == is_alphanumeric(c) \/ c = "_"

\* Mutant: the chars of the reserved words forgotten.
is_allowed_token_names_only(c) == is_allowed_var_name(c)

is_allowed_token(c) ==
    \/ is_allowed_var_name(c)
    \/ \E i \in 1..Len(reserved_tokens) : Contains(reserved_tokens[i].label, c)

\* itertools MultiPeek over input.chars(): the chars not yet pulled from the
\* underlying iterator, the peeked buffer, and the peek cursor.
MultiPeek(s) == [iter |-> s, buf |-> <<>>, index |-> 0]

\* Mutant: next forgets what was peeked and pulls from the chars.
MPNext_drop_peeked(mp) ==
    IF mp.iter # <<>>
    THEN [some |-> TRUE, item |-> Head(mp.iter),
          mp |-> [iter |-> Tail(mp.iter), buf |-> <<>>, index |-> 0]]
    ELSE [some |-> FALSE, item |-> "", mp |-> [iter |-> <<>>, buf |-> <<>>, index |-> 0]]

\* MultiPeek::next: resets the cursor, pops the buffer's front, else pulls.
MPNext(mp) ==
    IF mp.buf # <<>>
    THEN [some |-> TRUE, item |-> Head(mp.buf),
          mp |-> [iter |-> mp.iter, buf |-> Tail(mp.buf), index |-> 0]]
    ELSE IF mp.iter # <<>>
    THEN [some |-> TRUE, item |-> Head(mp.iter),
          mp |-> [iter |-> Tail(mp.iter), buf |-> <<>>, index |-> 0]]
    ELSE [some |-> FALSE, item |-> "", mp |-> [mp EXCEPT !.index = 0]]

\* MultiPeek::peek: the element under the cursor (pulled into the buffer
\* when the buffer is too short), and the cursor moves on.
MPPeek(mp) ==
    IF mp.index < Len(mp.buf)
    THEN [some |-> TRUE, item |-> mp.buf[mp.index + 1],
          mp |-> [mp EXCEPT !.index = mp.index + 1]]
    ELSE IF mp.iter # <<>>
    THEN [some |-> TRUE, item |-> Head(mp.iter),
          mp |-> [iter |-> Tail(mp.iter), buf |-> Append(mp.buf, Head(mp.iter)),
                  index |-> mp.index + 1]]
    ELSE [some |-> FALSE, item |-> "", mp |-> mp]

\* The token of a finished run: the reserved token whose label is the run,
\* else a Variable.
FindReserved(temp_string) ==
    {i \in 1..Len(reserved_tokens) : reserved_tokens[i].label = temp_string}

\* Mutant: the reserved words never found, every run a Variable.
RunToken_variable_only(temp_string) == Token("Variable", temp_string)

\* Mutant: a reserved word found at the start of the run.
RunToken_by_prefix(temp_string) ==
    LET starts == {i \in 1..Len(reserved_tokens) :
                     /\ Len(reserved_tokens[i].label) <= Len(temp_string)
                     /\ SubSeq(temp_string, 1, Len(reserved_tokens[i].label))
                            = reserved_tokens[i].label}
    IN IF starts # {}
       THEN reserved_tokens[CHOOSE i \in starts : \A j \in starts : i <= j]
       ELSE Token("Variable", temp_string)

RunToken(temp_string) ==
    IF FindReserved(temp_string) # {}
    THEN reserved_tokens[CHOOSE i \in FindReserved(temp_string) :
                            \A j \in FindReserved(temp_string) : i <= j]
    ELSE Token("Variable", temp_string)

\* The scanner's state: where it is in tokenize (at the head of the outer
\* loop, at the head of the inner loop, or returned), its locals, and the error it
\* returns if any. The Vec toks is the Ok value; a return of Err drops it.
ScanInit(input) ==
    [at |-> "outer", iter |-> MultiPeek(input), temp_string |-> <<>>,
     toks |-> <<>>, err |-> Pending]

\* Mutant: temp_string is never cleared.
OuterStep_no_clear(s) ==
    LET n == MPNext(s.iter) IN
    IF ~n.some
    THEN [s EXCEPT !.at = "returned", !.iter = n.mp]
    ELSE IF is_allowed_token(n.item)
    THEN [s EXCEPT !.at = "inner", !.iter = n.mp,
                   !.temp_string = Append(s.temp_string, n.item)]
    ELSE IF is_whitespace(n.item)
    THEN [s EXCEPT !.iter = n.mp]
    ELSE [s EXCEPT !.at = "returned", !.iter = n.mp, !.toks = <<>>,
                   !.err = Err("Tokenizer", "Unknown token: '{}'", <<n.item>>)]

\* One turn of `while let Some(c) = iter.next()` up to the inner loop.
OuterStep(s) ==
    LET n == MPNext(s.iter) IN
    IF ~n.some
    THEN [s EXCEPT !.at = "returned", !.iter = n.mp]
    ELSE IF is_allowed_token(n.item)
    THEN [s EXCEPT !.at = "inner", !.iter = n.mp, !.temp_string = <<n.item>>]
    ELSE IF is_whitespace(n.item)
    THEN [s EXCEPT !.iter = n.mp, !.temp_string = <<>>]
    ELSE [s EXCEPT !.at = "returned", !.iter = n.mp, !.toks = <<>>,
                   !.err = Err("Tokenizer", "Unknown token: '{}'", <<n.item>>)]

\* One test of `while let Some(pek) = iter.peek() && is_allowed_token(*pek)`:
\* the body when it passes, the push of the run's token when it fails.
InnerStep(s) ==
    LET p == MPPeek(s.iter) IN
    IF p.some /\ is_allowed_token(p.item)
    THEN [s EXCEPT !.iter = MPNext(p.mp).mp,
                   !.temp_string = Append(s.temp_string, p.item)]
    ELSE [s EXCEPT !.at = "outer", !.iter = p.mp,
                   !.toks = Append(s.toks, RunToken(s.temp_string))]

ScanStep(s) == IF s.at = "outer" THEN OuterStep(s) ELSE InnerStep(s)

RECURSIVE RunScan(_)
RunScan(s) == IF s.at = "returned" THEN s ELSE RunScan(ScanStep(s))

\* Mutant: an error of the scan is dropped, Ok with no tokens in its place.
tokenize_lossy(input) ==
    LET s == RunScan(ScanInit(input)) IN
    [ok |-> TRUE, toks |-> s.toks, err |-> Pending]

\* Tokenizer::tokenize as a function: Ok with the tokens, or the error.
tokenize(input) ==
    LET s == RunScan(ScanInit(input)) IN
    [ok |-> s.err.tag # "Err", toks |-> s.toks, err |-> s.err]

\* ------------------------------------------------------------ the parser

\* Mutant: a missing key read as Empty.
Get_or_empty(variables, key) ==
    [some |-> TRUE, val |-> IF key \in DOMAIN variables THEN variables[key] ELSE Empty]

\* HashMap<String, VariableValue>: a function on the keys it holds.
Get(variables, key) ==
    IF key \in DOMAIN variables
    THEN [some |-> TRUE, val |-> variables[key]]
    ELSE [some |-> FALSE, val |-> Empty]

Parser(msg, arg) == Err("Parser", msg, arg)

\* std::slice::Iter<Token>::next, the iterator being the count of tokens
\* it has yielded.
IterNext(tokens, pos) ==
    IF pos < Len(tokens)
    THEN [some |-> TRUE, tok |-> tokens[pos + 1], pos |-> pos + 1]
    ELSE [some |-> FALSE, tok |-> Token("Variable", <<>>), pos |-> pos]

\* Mutant: a peek that leaves the token in the borrowed iterator.
PeekablePeek_in_place(tokens, pos) ==
    [IterNext(tokens, pos) EXCEPT !.pos = pos]

\* iterator.peekable().peek(): the Peekable pulls the next token out of the
\* borrowed iterator to show it, and is dropped with the token in it.
PeekablePeek(tokens, pos) == IterNext(tokens, pos)

expect_token(tokens, pos, typ, on_fail) ==
    LET n == IterNext(tokens, pos) IN
    IF n.some /\ TokenTypeEq(n.tok.typ, typ)
    THEN [ok |-> TRUE, tok |-> n.tok, pos |-> n.pos, err |-> Pending]
    ELSE [ok |-> FALSE, tok |-> n.tok, pos |-> n.pos, err |-> Parser(on_fail, NoArg)]

\* Mutant: every value passes for a bool, a non-bool reading as false.
is_bool_any(v) == TRUE

\* let VariableValue::Bool(val_condition) = var_condition else { ... }
is_bool(v) == v.tag = "Bool"

\* Mutant: the then-branch whatever the condition.
then_value_unconditional(val_condition, val_on_true) == val_on_true

\* The value of a conditional without an else-branch.
then_value(val_condition, val_on_true) ==
    IF val_condition THEN val_on_true ELSE Empty

\* The value of a conditional with an else-branch.
then_else_value(val_condition, val_on_true, val_on_else) ==
    IF val_condition THEN val_on_true ELSE val_on_else

\* Mutant: the else-branch read only when the condition is false.
parse_else_lazy(variables, tokens, pos, val_condition, val_on_true) ==
    LET tok_else == PeekablePeek(tokens, pos) IN
    IF ~tok_else.some \/ val_condition
    THEN Ok(then_value(val_condition, val_on_true))
    ELSE
    LET tok_on_else == expect_token(tokens, tok_else.pos, "Variable",
            "Expected variable name inside of 'if'-branch of if-statement.") IN
    IF ~tok_on_else.ok THEN tok_on_else.err ELSE
    LET val_on_else == Get(variables, tok_on_else.tok.label) IN
    IF ~val_on_else.some
    THEN Parser("Variable '{}' does not exist!", tok_on_else.tok.label)
    ELSE Ok(val_on_else.val)

\* parse_if from `let mut peek_iter = iterator.peekable()` on.
parse_else(variables, tokens, pos, val_condition, val_on_true) ==
    LET tok_else == PeekablePeek(tokens, pos) IN
    IF ~tok_else.some
    THEN Ok(then_value(val_condition, val_on_true))
    ELSE IF ~TokenTypeEq(tok_else.tok.typ, "IfElse")
    THEN Parser("Expected ':' to start an 'else'-branch for the if-statement", NoArg)
    ELSE
    LET tok_on_else == expect_token(tokens, tok_else.pos, "Variable",
            "Expected variable name inside of 'if'-branch of if-statement.") IN
    IF ~tok_on_else.ok THEN tok_on_else.err ELSE
    LET val_on_else == Get(variables, tok_on_else.tok.label) IN
    IF ~val_on_else.some
    THEN Parser("Variable '{}' does not exist!", tok_on_else.tok.label)
    ELSE Ok(then_else_value(val_condition, val_on_true, val_on_else.val))

\* parse_if from the `;` to the then-branch's value.
parse_then(variables, tokens, pos, val_condition) ==
    LET if_end == expect_token(tokens, pos, "IfEnd",
            "Expected ';' after variable name inside of 'if'!") IN
    IF ~if_end.ok THEN if_end.err ELSE
    LET tok_on_true == expect_token(tokens, if_end.pos, "Variable",
            "Expected variable name inside of 'if'-branch of if-statement.") IN
    IF ~tok_on_true.ok THEN tok_on_true.err ELSE
    LET val_on_true == Get(variables, tok_on_true.tok.label) IN
    IF ~val_on_true.some
    THEN Parser("Variable '{}' does not exist!", tok_on_true.tok.label)
    ELSE parse_else(variables, tokens, tok_on_true.pos, val_condition, val_on_true.val)

parse_if(variables, tokens, pos) ==
    LET tok_condition == expect_token(tokens, pos, "Variable",
            "Expected variable name after 'if'!") IN
    IF ~tok_condition.ok THEN tok_condition.err ELSE
    LET var_condition == Get(variables, tok_condition.tok.label) IN
    IF ~var_condition.some
    THEN Parser("Variable '{}' does not exist!", tok_condition.tok.label)
    ELSE IF ~is_bool(var_condition.val)
    THEN Parser("Variable '{}' is not a bool!", tok_condition.tok.label)
    ELSE parse_then(variables, tokens, tok_condition.pos, var_condition.val.b)

\* Mutant: a variable reference must be the whole line.
eval_tokens_whole_line(variables, tokens) ==
    LET first == IterNext(tokens, 0) IN
    IF ~first.some THEN Parser("No tokens", NoArg)
    ELSE IF first.tok.typ = "Variable"
    THEN LET var == Get(variables, first.tok.label) IN
         IF IterNext(tokens, first.pos).some
         THEN Parser("Expected end of line after variable name!", NoArg)
         ELSE IF var.some THEN Ok(var.val)
         ELSE Parser("Variable '{}' not found!", first.tok.label)
    ELSE IF first.tok.typ = "IfStart"
    THEN parse_if(variables, tokens, first.pos)
    ELSE Parser("Expected start of an if-statement or variable name!", NoArg)

\* eval after tokenize: the match on the first token.
eval_tokens(variables, tokens) ==
    LET first == IterNext(tokens, 0) IN
    IF ~first.some THEN Parser("No tokens", NoArg)
    ELSE IF first.tok.typ = "Variable"
    THEN LET var == Get(variables, first.tok.label) IN
         IF var.some THEN Ok(var.val)
         ELSE Parser("Variable '{}' not found!", first.tok.label)
    ELSE IF first.tok.typ = "IfStart"
    THEN parse_if(variables, tokens, first.pos)
    ELSE Parser("Expected start of an if-statement or variable name!", NoArg)

eval(variables, line) ==
    LET t == tokenize(line) IN
    IF ~t.ok THEN t.err ELSE eval_tokens(variables, t.toks)

\* ------------------------------------------------------------- the inputs

IfWord == <<"i", "f">>
EndWord == <<";">>
ElseWord == <<":">>
NegateWord == <<"!">>
\* Two variable names; the second starts like the reserved word.
NameWords == {<<"a">>, <<"i", "f", "_">>}
Words == {IfWord, EndWord, ElseWord, NegateWord} \cup NameWords

SeqsUpTo(S, n) == UNION {[1..k -> S] : k \in 0..n}

\* The words of a line, one space between two of them.
RECURSIVE Join(_)
Join(ws) ==
    IF ws = <<>> THEN <<>>
    ELSE IF Len(ws) = 1 THEN ws[1]
    ELSE ws[1] \o <<" ">> \o Join(Tail(ws))

\* The lines eval is given: every line of at most MaxToks words, and every
\* line that starts `if n ; n` for names n and goes on for at most MaxTail
\* words.
ShortLines == {Join(ws) : ws \in SeqsUpTo(Words, MaxToks)}
LongLines ==
    {Join(<<IfWord, c, EndWord, t>> \o tail) :
        c \in NameWords, t \in NameWords, tail \in SeqsUpTo(Words, MaxTail)}
\* The lines of whitespace only, the empty line among them.
BlankLines == SeqsUpTo(WhitespaceChars, MaxLen)
\* The lines with a word the tokenizer does not know: at most MaxTail words,
\* the unknown word, and at most one word more.
UnknownWord == <<"+">>
UnknownLines ==
    {Join(head \o <<UnknownWord>> \o tail) :
        head \in SeqsUpTo(Words, MaxTail), tail \in SeqsUpTo(Words, 1)}
Lines == ShortLines \cup LongLines \cup BlankLines \cup UnknownLines

\* The values and the maps eval is given: each name bound to a value or
\* not, and the spelling of `if` bound to true or not.
Values == {Bool(TRUE), Bool(FALSE), Str("42"), Empty}
Keys == NameWords \cup {IfWord}
Envs ==
    {m \in UNION {[D -> Values] : D \in SUBSET Keys} :
        IfWord \in DOMAIN m => m[IfWord] = Bool(TRUE)}

\* The chars and the inputs of the char-level scans.
Chars == AlnumChars \cup WhitespaceChars \cup OtherChars
CharInputs == SeqsUpTo(Chars, MaxLen)

\* The tokens that are compared.
Labels == Words
Tokens == {Token(typ, label) : typ \in TokenType, label \in Labels}

\* ---------------------------------------------------------------- state

VARIABLES
    pc,           \* where the call is
    input,        \* the String given to eval or to tokenize
    variables,    \* the HashMap given to eval
    tokens,       \* the Vec tokenize returned
    result,       \* the Result returned, Pending until then
    iter,         \* tokenize: the MultiPeek over the chars of input
    temp_string,  \* tokenize: the run being read
    toks,         \* tokenize: the tokens pushed so far
    lhs, rhs,     \* the two tokens of a comparison
    token_eq,     \* lhs == rhs
    typ_eq        \* lhs.typ == rhs.typ

vars == <<pc, input, variables, tokens, result, iter, temp_string, toks,
          lhs, rhs, token_eq, typ_eq>>

NoToken == Token("Variable", <<>>)

ScanIdle == iter = MultiPeek(<<>>) /\ temp_string = <<>> /\ toks = <<>>
CmpIdle == lhs = NoToken /\ rhs = NoToken /\ token_eq = FALSE /\ typ_eq = FALSE

\* ------------------------------------------------- eval, a call at a time

Init ==
    /\ pc = "eval"
    /\ input \in Lines
    /\ variables \in Envs
    /\ tokens = <<>>
    /\ result = Pending
    /\ ScanIdle
    /\ CmpIdle

\* let tokens = toker.tokenize(input)?;
EvalTokenize ==
    /\ pc = "eval"
    /\ LET t == tokenize(input) IN
        IF t.ok
        THEN pc' = "match" /\ tokens' = t.toks /\ result' = result
        ELSE pc' = "done" /\ tokens' = tokens /\ result' = t.err
    /\ UNCHANGED <<input, variables, iter, temp_string, toks, lhs, rhs, token_eq, typ_eq>>

\* match iter.next() { ... }
EvalMatch ==
    /\ pc = "match"
    /\ result' = eval_tokens(variables, tokens)
    /\ pc' = "done"
    /\ UNCHANGED <<input, variables, tokens, iter, temp_string, toks, lhs, rhs, token_eq, typ_eq>>

Next == EvalTokenize \/ EvalMatch

Spec == Init /\ [][Next]_vars

\* ------------------------------------------- tokenize, a step at a time

InitScan ==
    /\ pc = "outer"
    /\ input \in CharInputs
    /\ variables = <<>>
    /\ tokens = <<>>
    /\ result = Pending
    /\ iter = MultiPeek(input)
    /\ temp_string = <<>>
    /\ toks = <<>>
    /\ CmpIdle

ScanState ==
    [at |-> pc, iter |-> iter, temp_string |-> temp_string, toks |-> toks,
     err |-> Pending]

\* The scanner's locals after a step, and at its return what it returns:
\* result is the Result's variant, Ok's Vec is tokens.
ScanTo(s) ==
    /\ pc' = s.at
    /\ iter' = s.iter
    /\ temp_string' = s.temp_string
    /\ toks' = s.toks
    /\ tokens' = IF s.at = "returned" THEN s.toks ELSE tokens
    /\ result' = IF s.at = "returned" /\ s.err.tag = "Err" THEN s.err
                  ELSE IF s.at = "returned" THEN Ok(Empty) ELSE result
    /\ UNCHANGED <<input, variables, lhs, rhs, token_eq, typ_eq>>

ScanOuter == pc = "outer" /\ ScanTo(OuterStep(ScanState))

ScanInner == pc = "inner" /\ ScanTo(InnerStep(ScanState))

NextScan == ScanOuter \/ ScanInner

SpecScan == InitScan /\ [][NextScan]_vars

\* ------------------------------------------------- comparing two tokens

InitEq ==
    /\ pc = "compare"
    /\ lhs \in Tokens
    /\ rhs \in Tokens
    /\ token_eq = FALSE
    /\ typ_eq = FALSE
    /\ input = <<>>
    /\ variables = <<>>
    /\ tokens = <<>>
    /\ result = Pending
    /\ ScanIdle

Compare ==
    /\ pc = "compare"
    /\ token_eq' = TokenEq(lhs, rhs)
    /\ typ_eq' = TokenTypeEq(lhs.typ, rhs.typ)
    /\ pc' = "done"
    /\ UNCHANGED <<input, variables, tokens, result, iter, temp_string, toks, lhs, rhs>>

NextEq == Compare

SpecEq == InitEq /\ [][NextEq]_vars

\* ---------------------------------------------------------------- claims

Bound(k) == k \in DOMAIN variables
BoundToBool(k) == Bound(k) /\ variables[k].tag = "Bool"
IsParserError(r) == r.tag = "Err" /\ r.kind = "Parser"
IsTokenizerError(r) == r.tag = "Err" /\ r.kind = "Tokenizer"
NameA == <<"a">>
NameIf_ == <<"i", "f", "_">>

\* C1: eval of "if c ; t : e", c bound to a bool and t and e bound to any
\* values, is Ok of t's value when c is true and Ok of e's value when c is
\* false: the name after the ':' is the else-branch.
C1_IfElseValue ==
    pc = "done" =>
        \A c \in NameWords, t \in NameWords, e \in NameWords :
            ( /\ input = Join(<<IfWord, c, EndWord, t, ElseWord, e>>)
              /\ BoundToBool(c) /\ Bound(t) /\ Bound(e) )
            => result = Ok(IF variables[c] = Bool(TRUE) THEN variables[t]
                                                         ELSE variables[e])

\* C1 happens: a false condition, the else-branch's value differs from the
\* then-branch's and is the result.
C1_Witness ==
    /\ pc = "done"
    /\ input = Join(<<IfWord, NameA, EndWord, NameA, ElseWord, NameIf_>>)
    /\ Bound(NameA) /\ Bound(NameIf_)
    /\ variables[NameA] = Bool(FALSE)
    /\ variables[NameIf_] = Str("42")
    /\ result = Ok(Str("42"))

\* C2: eval of "if c ; t", c bound to a bool and t bound to v, is Ok(v) when
\* c is true and Ok(Empty) when c is false.
C2_IfValue ==
    pc = "done" =>
        \A c \in NameWords, t \in NameWords :
            ( /\ input = Join(<<IfWord, c, EndWord, t>>)
              /\ BoundToBool(c) /\ Bound(t) )
            => result = Ok(IF variables[c] = Bool(TRUE) THEN variables[t] ELSE Empty)

\* C2 happens: a false condition and a then-branch bound to a Str give Empty.
C2_Witness ==
    /\ pc = "done"
    /\ input = Join(<<IfWord, NameA, EndWord, NameIf_>>)
    /\ Bound(NameA) /\ Bound(NameIf_)
    /\ variables[NameA] = Bool(FALSE)
    /\ variables[NameIf_] = Str("42")
    /\ result = Ok(Empty)

\* A name as C3 and C10 mean it: not empty, of letters, digits and
\* underscores only.
IsName(k) == k # <<>> /\ \A i \in 1..Len(k) : is_alphanumeric(k[i]) \/ k[i] = "_"
IsReservedWord(k) == \E i \in 1..Len(reserved_tokens) : reserved_tokens[i].label = k

\* C3 as stated: eval of a name k that is a key of the map, bound to v, is
\* Ok(v), for every name k.
C3_EveryName ==
    pc = "done" =>
        \A k \in Keys :
            (IsName(k) /\ input = k /\ Bound(k)) => result = Ok(variables[k])

\* C3 amended: eval of a name k that is a key of the map, bound to v, is
\* Ok(v), for every name k that is not the reserved word `if`.
C3_EveryNameButIf ==
    pc = "done" =>
        \A k \in Keys :
            (IsName(k) /\ ~IsReservedWord(k) /\ input = k /\ Bound(k))
            => result = Ok(variables[k])

\* C3 happens: a bound name with an underscore that starts like `if`.
C3_Witness ==
    /\ pc = "done"
    /\ input = NameIf_
    /\ Bound(NameIf_)
    /\ variables[NameIf_] = Bool(FALSE)
    /\ result = Ok(Bool(FALSE))

\* C4: in a conditional whose condition name is bound to a bool, when the
\* token after the name is not an IfEnd, or there is none, eval fails with
\* a Parser error.
C4_IfEndRequired ==
    ( /\ pc = "done"
      /\ Len(tokens) >= 2
      /\ tokens[1].typ = "IfStart"
      /\ tokens[2].typ = "Variable"
      /\ BoundToBool(tokens[2].label)
      /\ (Len(tokens) = 2 \/ tokens[3].typ # "IfEnd") )
    => IsParserError(result)

\* C5: in a conditional, when the token after the then-branch name is not
\* an IfElse, eval fails with a Parser error.
C5_IfElseRequired ==
    ( /\ pc = "done"
      /\ Len(tokens) >= 5
      /\ tokens[1].typ = "IfStart"
      /\ tokens[2].typ = "Variable"
      /\ BoundToBool(tokens[2].label)
      /\ tokens[3].typ = "IfEnd"
      /\ tokens[4].typ = "Variable"
      /\ tokens[5].typ # "IfElse" )
    => IsParserError(result)

\* C6: in a conditional "if c ...", when c is not a key eval fails with the
\* Parser error that c does not exist, and when c is bound to a value that
\* is not a bool with the Parser error that c is not a bool, whatever
\* follows.
C6_ConditionMustBeBool ==
    ( /\ pc = "done"
      /\ Len(tokens) >= 2
      /\ tokens[1].typ = "IfStart"
      /\ tokens[2].typ = "Variable" )
    => LET c == tokens[2].label IN
       /\ ~Bound(c) => result = Parser("Variable '{}' does not exist!", c)
       /\ (Bound(c) /\ variables[c].tag # "Bool")
            => result = Parser("Variable '{}' is not a bool!", c)

\* C6 happens: a condition bound to Empty, in a line that is otherwise a
\* full conditional.
C6_Witness ==
    /\ pc = "done"
    /\ input = Join(<<IfWord, NameA, EndWord, NameIf_, ElseWord, NameIf_>>)
    /\ Bound(NameA) /\ variables[NameA] = Empty
    /\ Bound(NameIf_)
    /\ result = Parser("Variable '{}' is not a bool!", NameA)

\* The chars C7 lists as known to the tokenizer.
C7_KnownChar(c) ==
    \/ is_whitespace(c) \/ is_alphanumeric(c) \/ c = "_"
    \/ c \in {"i", "f", ";", ":", "!"}
C7_Unknown(s) == {i \in 1..Len(s) : ~C7_KnownChar(s[i])}
Leftmost(S) == CHOOSE i \in S : \A j \in S : i <= j

\* C7: tokenize returns a Tokenizer error exactly when the input holds a
\* char that is not whitespace, alphanumeric, '_' or a char of a reserved
\* word; the error carries the leftmost such char and no tokens come back.
C7_UnknownChar ==
    pc = "returned" =>
        /\ result.tag \in {"Ok", "Err"}
        /\ IsTokenizerError(result) <=> C7_Unknown(input) # {}
        /\ C7_Unknown(input) # {} =>
                /\ result = Err("Tokenizer", "Unknown token: '{}'",
                                 <<input[Leftmost(C7_Unknown(input))]>>)
                /\ tokens = <<>>

\* C7 happens: two unknown chars after a run that was already pushed.
C7_Witness ==
    /\ pc = "returned"
    /\ input = <<"a", " ", "+", "-">>
    /\ result = Err("Tokenizer", "Unknown token: '{}'", <<"+">>)
    /\ tokens = <<>>

\* The chars C8 lists as the chars of tokens, the runs of an input, and the
\* token of a run's text.
C8_TokenChar(c) == is_alphanumeric(c) \/ c \in {"_", ";", ":", "!"}
C8_RunStarts(s) ==
    {i \in 1..Len(s) : C8_TokenChar(s[i]) /\ (i = 1 \/ ~C8_TokenChar(s[i - 1]))}
C8_RunEnd(s, i) ==
    CHOOSE j \in i..Len(s) :
        /\ \A k \in i..j : C8_TokenChar(s[k])
        /\ (j = Len(s) \/ ~C8_TokenChar(s[j + 1]))
C8_NthStart(s, n) ==
    CHOOSE i \in C8_RunStarts(s) :
        Cardinality({j \in C8_RunStarts(s) : j < i}) = n - 1
C8_RunText(s, n) == SubSeq(s, C8_NthStart(s, n), C8_RunEnd(s, C8_NthStart(s, n)))
C8_TokenOf(text) ==
    IF text = <<"i", "f">> THEN Token("IfStart", text)
    ELSE IF text = <<";">> THEN Token("IfEnd", text)
    ELSE IF text = <<":">> THEN Token("IfElse", text)
    ELSE IF text = <<"!">> THEN Token("IfNegate", text)
    ELSE Token("Variable", text)

\* C8: when tokenize succeeds, each maximal run of token chars gives one
\* token, in order: the reserved token when the whole run is "if", ";",
\* ":" or "!", else a Variable whose label is the whole run.
C8_OneTokenPerRun ==
    (pc = "returned" /\ result.tag = "Ok") =>
        /\ Len(tokens) = Cardinality(C8_RunStarts(input))
        /\ \A n \in 1..Len(tokens) : tokens[n] = C8_TokenOf(C8_RunText(input, n))

\* C8 happens: a run that starts with a reserved word is one Variable, and
\* a reserved word alone follows it.
C8_Witness ==
    /\ pc = "returned"
    /\ input = <<"!", "a", " ", ":">>
    /\ tokens = <<Token("Variable", <<"!", "a">>), Token("IfElse", <<":">>)>>

\* C9: two tokens are equal exactly when their kinds and their labels are,
\* and two kinds are equal exactly when they are the same variant.
C9_StructuralEquality ==
    pc = "done" =>
        /\ token_eq <=> (lhs.typ = rhs.typ /\ lhs.label = rhs.label)
        /\ typ_eq <=> (lhs.typ = rhs.typ)

\* C10 as stated: eval of a name k that is not a key of the map fails with
\* a Parser error whose message names k, for every name k.
C10_EveryName ==
    pc = "done" =>
        \A k \in Keys :
            (IsName(k) /\ input = k /\ ~Bound(k))
            => (IsParserError(result) /\ result.arg = k)

\* C10 amended: eval of a name k that is not a key of the map fails with
\* the Parser error that k was not found, for every name k that is not
\* the reserved word `if`.
C10_EveryNameButIf ==
    pc = "done" =>
        \A k \in Keys :
            (IsName(k) /\ ~IsReservedWord(k) /\ input = k /\ ~Bound(k))
            => result = Parser("Variable '{}' not found!", k)

\* C10 happens: a name that is not a key, in a map that has other keys.
C10_Witness ==
    /\ pc = "done"
    /\ input = NameIf_
    /\ ~Bound(NameIf_)
    /\ Bound(NameA) /\ Bound(IfWord)
    /\ result = Parser("Variable '{}' not found!", NameIf_)

IsBlank(s) == \A i \in 1..Len(s) : s[i] \in WhitespaceChars

\* C11: for an input of whitespace only, the empty one too, tokenize
\* returns Ok with no tokens and eval fails with the Parser error
\* "No tokens", whatever the map.
C11_BlankLine ==
    IsBlank(input) =>
        /\ pc = "match" => tokens = <<>>
        /\ pc = "done" => (tokens = <<>> /\ result = Parser("No tokens", NoArg))

\* C11 happens: a line of two spaces, evaluated with a map that binds names.
C11_Witness ==
    /\ pc = "done"
    /\ input = <<" ", " ">>
    /\ Bound(NameA) /\ Bound(NameIf_)
    /\ result = Parser("No tokens", NoArg)

\* C12: in a conditional, when the token after the IfStart is a reserved
\* token, or there is none, eval fails with the Parser error that a
\* variable name was expected after 'if', whatever the map.
C12_NameRequiredAfterIf ==
    ( /\ pc = "done"
      /\ Len(tokens) >= 1
      /\ tokens[1].typ = "IfStart"
      /\ (Len(tokens) = 1 \/ tokens[2].typ # "Variable") )
    => result = Parser("Expected variable name after 'if'!", NoArg)

\* The line starts with the run ";", ":" or "!".
C13_StartsWithRun(s) ==
    /\ Len(s) >= 1
    /\ s[1] \in {";", ":", "!"}
    /\ (Len(s) = 1 \/ s[2] \in WhitespaceChars)

\* C13: when the first token is an IfEnd, an IfElse or an IfNegate, eval
\* fails with the Parser error "Expected start of an if-statement or
\* variable name!", whatever the map and the tokens that follow.
C13_ReservedFirst ==
    ( /\ pc = "done"
      /\ C7_Unknown(input) = {}
      /\ C13_StartsWithRun(input) )
    => result = Parser("Expected start of an if-statement or variable name!", NoArg)

\* C13 happens: a line that is a conditional but for the '!' before it,
\* with a map that binds its names.
C13_Witness ==
    /\ pc = "done"
    /\ input = Join(<<NegateWord, IfWord, NameA, EndWord>>)
    /\ Bound(NameA) /\ Bound(NameIf_)
    /\ result = Parser("Expected start of an if-statement or variable name!", NoArg)

\* C15: with c bound to a bool, "if c ; t" fails with the Parser error that
\* t does not exist when t is not a key, and "if c ; t : e" with t bound
\* fails with the Parser error that e does not exist when e is not a key,
\* whether c is true or false.
C15_BothBranchesResolve ==
    pc = "done" =>
        \A c \in NameWords, t \in NameWords, e \in NameWords :
            /\ ( /\ input = Join(<<IfWord, c, EndWord, t>>)
                 /\ BoundToBool(c) /\ ~Bound(t) )
               => result = Parser("Variable '{}' does not exist!", t)
            /\ ( /\ input = Join(<<IfWord, c, EndWord, t, ElseWord, e>>)
                 /\ BoundToBool(c) /\ Bound(t) /\ ~Bound(e) )
               => result = Parser("Variable '{}' does not exist!", e)

\* C15 happens: a true condition, a bound then-branch, and an else-branch
\* that is not a key.
C15_Witness ==
    /\ pc = "done"
    /\ input = Join(<<IfWord, NameA, EndWord, NameA, ElseWord, NameIf_>>)
    /\ Bound(NameA) /\ variables[NameA] = Bool(TRUE)
    /\ ~Bound(NameIf_)
    /\ result = Parser("Variable '{}' does not exist!", NameIf_)

\* C16: when the first token is a Variable k, the tokens after it are
\* ignored: eval of the line is what eval of k alone is.
C16_TrailingTokensIgnored ==
    ( /\ pc = "done"
      /\ Len(tokens) >= 1
      /\ tokens[1].typ = "Variable" )
    => result = eval(variables, tokens[1].label)

\* C16 happens: a bound name followed by a reserved word, a name that is
\* not a key and a second reserved word.
C16_Witness ==
    /\ pc = "done"
    /\ input = Join(<<NameA, ElseWord, NameIf_, IfWord>>)
    /\ Bound(NameA) /\ variables[NameA] = Str("42")
    /\ ~Bound(NameIf_)
    /\ result = Ok(Str("42"))

\* The steps of a conditional that a map m and tokens ts violate, by the
\* place of each step's token in the line: (a) a condition token that is a
\* Variable, (b) its name bound to a bool, (c) a ';', (d) a then-branch
\* name that is bound, (f) after a fifth token, that it is a ':', (g) and
\* that an else-branch name follows and is bound.
C17_IsNameAt(ts, n) == Len(ts) >= n /\ ts[n].typ = "Variable"
C17_BoundAt(m, ts, n) == C17_IsNameAt(ts, n) /\ ts[n].label \in DOMAIN m
C17_ViolatesA(m, ts) == ~C17_IsNameAt(ts, 2)
C17_ViolatesB(m, ts) ==
    C17_IsNameAt(ts, 2) /\ ~(C17_BoundAt(m, ts, 2) /\ m[ts[2].label].tag = "Bool")
C17_ViolatesC(m, ts) == ~(Len(ts) >= 3 /\ ts[3].typ = "IfEnd")
C17_ViolatesD(m, ts) == ~C17_BoundAt(m, ts, 4)
C17_ViolatesF(m, ts) == Len(ts) >= 5 /\ ts[5].typ # "IfElse"
C17_ViolatesG(m, ts) == Len(ts) >= 5 /\ ~C17_BoundAt(m, ts, 6)
C17_Violated(m, ts) ==
    {x \in {"a", "b", "c", "d", "f", "g"} :
        \/ x = "a" /\ C17_ViolatesA(m, ts)
        \/ x = "b" /\ C17_ViolatesB(m, ts)
        \/ x = "c" /\ C17_ViolatesC(m, ts)
        \/ x = "d" /\ C17_ViolatesD(m, ts)
        \/ x = "f" /\ C17_ViolatesF(m, ts)
        \/ x = "g" /\ C17_ViolatesG(m, ts)}

\* The error of the earliest step violated.
C17_MissingOrName(m, ts, n) ==
    IF C17_IsNameAt(ts, n)
    THEN Parser("Variable '{}' does not exist!", ts[n].label)
    ELSE Parser("Expected variable name inside of 'if'-branch of if-statement.", NoArg)
C17_FirstError(m, ts) ==
    IF C17_ViolatesA(m, ts)
    THEN Parser("Expected variable name after 'if'!", NoArg)
    ELSE IF C17_ViolatesB(m, ts)
    THEN IF C17_BoundAt(m, ts, 2)
         THEN Parser("Variable '{}' is not a bool!", ts[2].label)
         ELSE Parser("Variable '{}' does not exist!", ts[2].label)
    ELSE IF C17_ViolatesC(m, ts)
    THEN Parser("Expected ';' after variable name inside of 'if'!", NoArg)
    ELSE IF C17_ViolatesD(m, ts)
    THEN C17_MissingOrName(m, ts, 4)
    ELSE IF C17_ViolatesF(m, ts)
    THEN Parser("Expected ':' to start an 'else'-branch for the if-statement", NoArg)
    ELSE C17_MissingOrName(m, ts, 6)

\* C17: when a conditional line violates more than one of the steps (a),
\* (b), (c), (d), (f), (g), the error eval returns is the error of the
\* earliest of the steps violated.
C17_EarliestError ==
    ( /\ pc = "done"
      /\ Len(tokens) >= 1
      /\ tokens[1].typ = "IfStart"
      /\ Cardinality(C17_Violated(variables, tokens)) >= 2 )
    => result = C17_FirstError(variables, tokens)

\* C18: at every step of the scan and in what it returns, every token
\* pushed has a label that is not empty and holds token chars only, no
\* whitespace, and the tokens are in the order of their runs in the input.
C18_TokenList(ts) ==
    /\ Len(ts) <= Cardinality(C8_RunStarts(input))
    /\ \A n \in 1..Len(ts) :
        /\ ts[n].label # <<>>
        /\ \A i \in 1..Len(ts[n].label) :
            C8_TokenChar(ts[n].label[i]) /\ ts[n].label[i] \notin WhitespaceChars
        /\ ts[n].label = C8_RunText(input, n)
C18_TokensWellFormed == C18_TokenList(toks) /\ C18_TokenList(tokens)

\* C18 happens: in the middle of a scan, a second run being read after the
\* token of the first was pushed.
C18_Witness ==
    /\ pc = "inner"
    /\ input = <<"a", " ", ";", "f">>
    /\ toks = <<Token("Variable", <<"a">>)>>
    /\ temp_string = <<";", "f">>

\* C19: when the line holds an unknown char, eval returns the Tokenizer
\* error for it and never reaches the match on the tokens, where names
\* are looked up, whatever the tokens before the char would give.
C19_TokenizerErrorFirst ==
    C7_Unknown(input) # {} =>
        /\ pc # "match"
        /\ pc = "done" =>
            /\ result = Err("Tokenizer", "Unknown token: '{}'",
                             <<input[Leftmost(C7_Unknown(input))]>>)
            /\ tokens = <<>>

\* C19 happens: a bound name, that alone evaluates to Ok, before the
\* unknown char.
C19_Witness ==
    /\ pc = "done"
    /\ input = Join(<<NameA, UnknownWord, NameIf_>>)
    /\ Bound(NameA) /\ ~Bound(NameIf_)
    /\ eval(variables, NameA) = Ok(variables[NameA])
    /\ result = Err("Tokenizer", "Unknown token: '{}'", <<"+">>)

\* The labels of tokens, one after the other; an input without its
\* whitespace; the places where its runs of other chars start.
RECURSIVE C20_Labels(_)
C20_Labels(ts) == IF ts = <<>> THEN <<>> ELSE Head(ts).label \o C20_Labels(Tail(ts))
C20_NotWhitespace(c) == c \notin WhitespaceChars
C20_RunStarts(s) ==
    {i \in 1..Len(s) :
        C20_NotWhitespace(s[i]) /\ (i = 1 \/ ~C20_NotWhitespace(s[i - 1]))}

\* C20: when tokenize succeeds, the labels of the tokens, one after the
\* other, are the input without its whitespace, and there are as many
\* tokens as maximal runs of chars that are not whitespace.
C20_EveryCharOnce ==
    (pc = "returned" /\ result.tag = "Ok") =>
        /\ C20_Labels(tokens) = SelectSeq(input, C20_NotWhitespace)
        /\ Len(tokens) = Cardinality(C20_RunStarts(input))

\* C20 happens: a run ended by whitespace that a peek has read, and a run
\* ended by the end of the input.
C20_Witness ==
    /\ pc = "returned"
    /\ input = <<"a", ";", " ", "f">>
    /\ result.tag = "Ok"
    /\ C20_Labels(tokens) = <<"a", ";", "f">>
    /\ Len(tokens) = 2

====
